---- MODULE Spec2Model ----
(***************************************************************************)
(* Model of the local artifact cache (src/src/cache/local_cache.c): the    *)
(* node tree, the download coordinator, the cleanup sweeper and the        *)
(* metadata.json codec, over an abstract file system and an abstract       *)
(* wall clock.                                                             *)
(***************************************************************************)
EXTENDS Integers, Sequences, FiniteSets, TLC

VARIABLES
    nodes,          \* heap of struct cache_node: id -> record (allocated ids only)
    rsync,          \* static struct cache_node *rsync  (NULL or an id)
    https,          \* static struct cache_node *https  (NULL or an id)
    startup_time,   \* static time_t startup_time
    now,            \* the wall clock read by time(NULL)
    disk,           \* the local repository: path -> "file" | "dir" | "other"
    meta,           \* the content of <local repository>/metadata.json
    phase,          \* which public operation was called last
    last,           \* what the last call did (operation, argument, result)
    fetchedOk,      \* URIs whose fetch succeeded in the current run
    intact,         \* ... and whose node no later download has touched
    okRsync,        \* rsync paths whose cache_download returned 0 in this run
    okKept,         \* ... and above which no later fetch was made
    kept,           \* the fresh, successful, on-disk nodes met by the last sweep
    dumped,         \* the trees as they were when metadata.json was last written
    attempted,      \* the nodes fetched for since the latest cache_prepare
    slurm,          \* the overlay loader: its document, its result, what it processed
    ndl,            \* number of cache_download calls so far
    steps           \* number of other operations so far

vars == <<nodes, rsync, https, startup_time, now, disk, meta, phase, last,
          fetchedOk, intact, okRsync, okKept, kept, dumped, attempted,
          slurm, ndl, steps>>

-----------------------------------------------------------------------------
(* Bounds of the model *)

MaxDepth == 3       \* longest URI path, in segments below the transport root
MaxNow == 2         \* the clock runs from 1 to MaxNow
MaxSteps == 5       \* calls other than cache_download per behaviour
MaxDownloads == 2   \* cache_download calls per behaviour
MaxRunDownloads == 3 \* cache_download calls per behaviour of a single run
MaxEditedDownloads == 1 \* cache_download calls over an edited repository
MaxFaultPos == 1    \* a failing readdir() delivers at most this many entries first
MaxFaultDepth == 1  \* a system call fails at most this deep below the repository
DstEnd == 2         \* first instant of standard time in the local time zone

-----------------------------------------------------------------------------
(* Program constants *)

NULL == 0
CNF_DIRECT == 1
CNF_SUCCESS == 2
CNF_FOUND == 4
CNF_FILE == 8

UT_RSYNC == "rsync"
UT_HTTPS == "https"

HasFlag(flags, bit) == (flags \div bit) % 2 = 1
\* flags | mask and flags & ~mask over the four CNF_* bits
BitOr(flags, mask) ==
    flags + (IF HasFlag(mask, 1) /\ ~HasFlag(flags, 1) THEN 1 ELSE 0)
          + (IF HasFlag(mask, 2) /\ ~HasFlag(flags, 2) THEN 2 ELSE 0)
          + (IF HasFlag(mask, 4) /\ ~HasFlag(flags, 4) THEN 4 ELSE 0)
          + (IF HasFlag(mask, 8) /\ ~HasFlag(flags, 8) THEN 8 ELSE 0)
BitClear(flags, mask) ==
    flags - (IF HasFlag(mask, 1) /\ HasFlag(flags, 1) THEN 1 ELSE 0)
          - (IF HasFlag(mask, 2) /\ HasFlag(flags, 2) THEN 2 ELSE 0)
          - (IF HasFlag(mask, 4) /\ HasFlag(flags, 4) THEN 4 ELSE 0)
          - (IF HasFlag(mask, 8) /\ HasFlag(flags, 8) THEN 8 ELSE 0)

-----------------------------------------------------------------------------
(* Inputs *)

\* URI paths below the transport root: a, a/a, a/a/a, ... and the sibling b.
UriPaths == {<<"b">>} \cup {[i \in 1..k |-> "a"] : k \in 1..MaxDepth}

Uris == [type : {UT_RSYNC, UT_HTTPS}, path : UriPaths]

\* Result codes of the fetchers.
FetchResults == {0, 1}

\* Order in which readdir() delivers the entries of a directory.
NameOrder == <<"a", "b", "x", "stale.txt">>

-----------------------------------------------------------------------------
(* The heap *)

Alloc(ns) ==
    CHOOSE i \in 1..(Cardinality(DOMAIN ns) + 1) :
        i \notin DOMAIN ns /\ \A j \in 1..(i - 1) : j \in DOMAIN ns

Put(ns, id, rec) == [i \in (DOMAIN ns) \cup {id} |-> IF i = id THEN rec ELSE ns[i]]

Free(ns, id) == [i \in (DOMAIN ns) \ {id} |-> ns[i]]

ZeroNode ==
    [basename |-> "", flags |-> 0, ts_success |-> 0, ts_attempt |-> 0,
     error |-> 0, parent |-> NULL, children |-> <<>>]

\* Variant: every node is taken for a root.
is_root_always(node) == TRUE

is_root(node) == node.parent = NULL

\* HASH_ADD_KEYPTR: append to the table; no check for an equal key.
HASH_ADD(ns, parent, id) == [ns EXCEPT ![parent].children = Append(@, id)]

\* HASH_DEL: unlink the item from the table.
HASH_DEL(ns, parent, id) ==
    [ns EXCEPT ![parent].children = SelectSeq(@, LAMBDA c : c # id)]

\* HASH_FIND_STR: the item with the given key; among equal keys the one
\* added last (uthash puts new items at the head of their bucket).
HASH_FIND_STR(ns, parent, key) ==
    LET kids == ns[parent].children
        hits == {i \in 1..Len(kids) : ns[kids[i]].basename = key}
    IN  IF hits = {} THEN NULL
        ELSE kids[CHOOSE i \in hits : \A j \in hits : j <= i]

add_child(ns, parent, basename) ==
    LET id == Alloc(ns)
        ns1 == Put(ns, id, [ZeroNode EXCEPT !.basename = basename, !.parent = parent])
    IN  [nodes |-> HASH_ADD(ns1, parent, id), node |-> id]

init_root(ns, root, name) ==
    IF root # NULL THEN [nodes |-> ns, node |-> root]
    ELSE LET id == Alloc(ns)
         IN  [nodes |-> Put(ns, id, [ZeroNode EXCEPT !.basename = name]), node |-> id]

RECURSIVE delete_node(_, _, _)
RECURSIVE delete_nodes(_, _, _)

delete_nodes(ns, ids, force) ==
    IF ids = <<>> THEN ns
    ELSE delete_nodes(delete_node(ns, Head(ids), force), Tail(ids), force)

delete_node(ns, id, force) ==
    LET ns1 == delete_nodes(ns, ns[id].children, force)
    IN  IF force \/ ~is_root(ns1[id])
        THEN LET par == ns1[id].parent
                 ns2 == IF par # NULL THEN HASH_DEL(ns1, par, id) ELSE ns1
             IN  Free(ns2, id)
        ELSE ns1

RECURSIVE destroy_tree(_, _)
RECURSIVE destroy_trees(_, _)

destroy_trees(ns, ids) ==
    IF ids = <<>> THEN ns
    ELSE destroy_trees(destroy_tree(ns, Head(ids)), Tail(ids))

\* Variant: the children are left in place.
drop_children_none(ns, id) == ns

drop_children(ns, id) == destroy_trees(ns, ns[id].children)

destroy_tree(ns, id) ==
    IF id = NULL THEN ns
    ELSE LET ns1 == drop_children(ns, id)
             par == ns1[id].parent
             ns2 == IF par # NULL THEN HASH_DEL(ns1, par, id) ELSE ns1
         IN  Free(ns2, id)

-----------------------------------------------------------------------------
(* The file system *)

IsPrefix(p, q) == Len(p) <= Len(q) /\ SubSeq(q, 1, Len(p)) = p

IsProperPrefix(p, q) == Len(p) < Len(q) /\ SubSeq(q, 1, Len(p)) = p

Restrict(d, keep) == [p \in keep |-> d[p]]

\* file_rm_rf(): the path and everything beneath it.
file_rm_rf(d, path) == Restrict(d, {p \in DOMAIN d : ~IsPrefix(path, p)})

\* remove(): unlink() for a non-directory, rmdir() for an empty directory.
remove(d, path) ==
    IF path \in DOMAIN d
       /\ (d[path] # "dir" \/ ~\E p \in DOMAIN d : IsProperPrefix(path, p))
    THEN Restrict(d, (DOMAIN d) \ {path})
    ELSE d

\* The entries of a directory, in readdir() order, "." and ".." left out.
DirListing(d, path) ==
    LET names == {p[Len(p)] : p \in {q \in DOMAIN d :
                                     Len(q) = Len(path) + 1 /\ IsPrefix(path, q)}}
    IN  SelectSeq(NameOrder, LAMBDA s : s \in names)

\* The path of a node below the local repository, root first.
RECURSIVE NodePath(_, _)
NodePath(ns, id) ==
    IF id = NULL THEN <<>>
    ELSE Append(NodePath(ns, ns[id].parent), ns[id].basename)

\* Variant: a directory is removed only if it is empty.
delete_node_file_rmdir(ns, d, node, is_file) == remove(d, NodePath(ns, node))

delete_node_file(ns, d, node, is_file) ==
    IF is_file THEN remove(d, NodePath(ns, node))
    ELSE file_rm_rf(d, NodePath(ns, node))

-----------------------------------------------------------------------------
(* JSON values (jansson) *)

JAbsent == [t |-> "absent"]
JInt(i) == [t |-> "int", i |-> i]
JStr(s) == [t |-> "str", s |-> s, isTime |-> FALSE, l |-> 0, z |-> 0]
\* A string of the form %Y-%m-%dT%H:%M:%S%z: local broken-down time l, offset z.
JTime(l, z) == [t |-> "str", s |-> "", isTime |-> TRUE, l |-> l, z |-> z]
JArray(a) == [t |-> "array", a |-> a]
JObject(basename, flags, ts_success, ts_attempt, error, children) ==
    [t |-> "object", basename |-> basename, flags |-> flags,
     ts_success |-> ts_success, ts_attempt |-> ts_attempt, error |-> error,
     children |-> children]

json_is_integer(j) == j.t = "int"
json_is_array(j) == j.t = "array"
json_array_size(j) == IF j.t = "array" THEN Len(j.a) ELSE 0

-----------------------------------------------------------------------------
(* The local time zone: daylight saving time until DstEnd, standard after *)

DstOff == 1

\* localtime_r(): the offset from UTC in force at instant tt.
TzOff(tt) == IF tt < DstEnd THEN DstOff ELSE 0

\* mktime(): reads the broken-down time as local time, ignores tm_gmtoff and
\* trusts tm_isdst (> 0 daylight saving, 0 standard, < 0 find out).
mktime(l, tm_isdst) ==
    IF tm_isdst > 0 THEN l - DstOff
    ELSE IF tm_isdst = 0 THEN l
    ELSE IF TzOff(l - DstOff) = DstOff THEN l - DstOff ELSE l

\* strftime(localtime_r(tt), "%FT%T%z")
tt2json(tt) == JTime(tt + TzOff(tt), TzOff(tt))

\* strptime("%FT%T%z") then mktime(); struct tm is not initialised, so
\* tm_isdst is whatever the stack held.  Result: [error, tt].
json_tt_value(json, tm_isdst) ==
    IF json.t # "str" THEN [error |-> -1, tt |-> 0]
    ELSE IF ~json.isTime THEN [error |-> -1, tt |-> 0]
    ELSE IF mktime(json.l, tm_isdst) = -1 THEN [error |-> -1, tt |-> 0]
    ELSE [error |-> 0, tt |-> mktime(json.l, tm_isdst)]

-----------------------------------------------------------------------------
(* Metadata codec *)

RECURSIVE json2node(_, _, _, _)
RECURSIVE json2children(_, _, _, _, _)

\* The loop over "children" of json2node: [nodes, ok].
json2children(ns, node, jchildren, c, tm_isdst) ==
    IF c > Len(jchildren) THEN [nodes |-> ns, ok |-> TRUE]
    ELSE LET add(r) ==
                 IF r.node = NULL THEN [nodes |-> r.nodes, ok |-> FALSE]
                 ELSE json2children(HASH_ADD(r.nodes, node, r.node), node,
                                    jchildren, c + 1, tm_isdst)
         IN  add(json2node(ns, jchildren[c], node, tm_isdst))

\* Result: [nodes, node]; node = NULL when the object was skipped.
json2node(ns, json, parent, tm_isdst) ==
    LET node == Alloc(ns)
        cancel(nsx) == [nodes |-> delete_node(nsx, node, TRUE), node |-> NULL]
        \* after the loop over "children"
        adopt(r) ==
            IF ~r.ok THEN cancel(r.nodes)
            ELSE [nodes |-> [r.nodes EXCEPT ![node].parent = parent], node |-> node]
        \* the fields, in the order the code reads them
        fill(ns0, success, attempt) ==
            IF \/ json.t # "object"
               \/ json.basename.t # "str"
               \/ ~json_is_integer(json.flags)
               \/ success.error # 0
               \/ attempt.error # 0
               \/ ~json_is_integer(json.error)
               \/ (json.children.t # "absent" /\ ~json_is_array(json.children))
            THEN cancel(ns0)
            ELSE adopt(json2children(
                        [ns0 EXCEPT ![node].basename = json.basename.s,
                                    ![node].flags = json.flags.i,
                                    ![node].ts_success = success.tt,
                                    ![node].ts_attempt = attempt.tt,
                                    ![node].error = json.error.i],
                        node,
                        IF json_is_array(json.children) THEN json.children.a ELSE <<>>,
                        1, tm_isdst))
    IN  fill(Put(ns, node, ZeroNode),
             json_tt_value(json.ts_success, tm_isdst),
             json_tt_value(json.ts_attempt, tm_isdst))

\* strcasecmp(s, label) == 0
strcasecmp0(s, label) ==
    \/ s = label
    \/ (s = "RSYNC" /\ label = "rsync")
    \/ (s = "HTTPS" /\ label = "https")

\* The loop over the root array of load_metadata_json: [nodes, rsync, https].
RECURSIVE load_roots(_, _, _, _)
load_roots(st, jroots, d, tm_isdst) ==
    IF d > Len(jroots) THEN st
    ELSE LET place(r) ==
                 IF r.node = NULL THEN [st EXCEPT !.nodes = r.nodes]
                 ELSE IF strcasecmp0(r.nodes[r.node].basename, "rsync")
                      THEN [st EXCEPT !.nodes = r.nodes, !.rsync = r.node]
                 ELSE IF strcasecmp0(r.nodes[r.node].basename, "https")
                      THEN [st EXCEPT !.nodes = r.nodes, !.https = r.node]
                 ELSE [st EXCEPT !.nodes = delete_node(r.nodes, r.node, TRUE)]
         IN  load_roots(place(json2node(st.nodes, jroots[d], NULL, tm_isdst)),
                        jroots, d + 1, tm_isdst)

\* Result: [nodes, rsync, https].
load_metadata_json(ns, file, tm_isdst) ==
    LET st0 == [nodes |-> ns, rsync |-> rsync, https |-> https]
        roots(st) ==
            LET r == init_root(st.nodes, st.rsync, "rsync")
                h == init_root(r.nodes, st.https, "https")
            IN  [nodes |-> h.nodes, rsync |-> r.node, https |-> h.node]
    IN  roots(IF file.kind = "array" THEN load_roots(st0, file.a, 1, tm_isdst)
              ELSE st0)

RECURSIVE node2json(_, _)
node2json(ns, node) ==
    JObject(JStr(ns[node].basename), JInt(ns[node].flags),
            tt2json(ns[node].ts_success), tt2json(ns[node].ts_attempt),
            JInt(ns[node].error),
            IF ns[node].children # <<>>
            THEN JArray([c \in 1..Len(ns[node].children) |->
                            node2json(ns, ns[node].children[c])])
            ELSE JAbsent)

build_metadata_json(ns) == <<node2json(ns, rsync), node2json(ns, https)>>

write_metadata_json(ns) == [kind |-> "array", a |-> build_metadata_json(ns)]

-----------------------------------------------------------------------------
(* The fetchers (rsync_download, http_download): their effect on the disk *)

Ancestors(path) == {SubSeq(path, 1, k) : k \in 1..(Len(path) - 1)}

\* The local path of a URI: the transport directory, then the URI's segments.
uri_get_local(uri) == <<uri.type>> \o uri.path

\* A successful single-object fetch leaves a regular file at the path.
http_written(d, path) ==
    LET d1 == file_rm_rf(d, path)
    IN  [q \in (DOMAIN d1) \cup Ancestors(path) \cup {path} |->
            IF q = path THEN "file"
            ELSE IF q \in Ancestors(path) THEN "dir"
            ELSE d1[q]]

\* A successful subtree fetch leaves a directory holding at least a file.
rsync_written(d, path) ==
    LET d1 == IF path \in DOMAIN d /\ d[path] # "dir" THEN file_rm_rf(d, path) ELSE d
        sub == Append(path, "x")
    IN  [q \in (DOMAIN d1) \cup Ancestors(path) \cup {path, sub} |->
            IF q = sub THEN "file"
            ELSE IF q = path \/ q \in Ancestors(path) THEN "dir"
            ELSE d1[q]]

fetch(d, uri, result) ==
    IF result # 0 THEN d
    ELSE IF uri.type = UT_RSYNC THEN rsync_written(d, uri_get_local(uri))
    ELSE http_written(d, uri_get_local(uri))

-----------------------------------------------------------------------------
(* Download coordinator *)

\* Variant: an attempt made in the very second of startup does not count.
was_recently_downloaded_strict(node) ==
    HasFlag(node.flags, CNF_DIRECT) /\ startup_time < node.ts_attempt

\* Variant: only a successful attempt counts.
was_recently_downloaded_ok(node) ==
    /\ HasFlag(node.flags, CNF_DIRECT) /\ HasFlag(node.flags, CNF_SUCCESS)
    /\ startup_time <= node.ts_attempt

was_recently_downloaded(node) ==
    HasFlag(node.flags, CNF_DIRECT) /\ startup_time <= node.ts_attempt

\* The do-while loop that creates the missing children: [nodes, node].
RECURSIVE create_children(_, _, _)
create_children(ns, node, tokens) ==
    IF tokens = <<>> THEN [nodes |-> ns, node |-> node]
    ELSE LET r == add_child(ns, node, Head(tokens))
         IN  create_children(r.nodes, r.node, Tail(tokens))

\* The while loop over the URI's tokens: [nodes, disk, node, exit], exit being
\* "end" (covered by a fresh ancestor), "download" (children were created) or
\* "walked" (every token was found).
RECURSIVE walk(_, _, _, _, _)
walk(ns, d, node, tokens, recursive) ==
    IF tokens = <<>> THEN [nodes |-> ns, disk |-> d, node |-> node, exit |-> "walked"]
    ELSE LET isfile == HasFlag(ns[node].flags, CNF_FILE)
             created(d1, r) ==
                 [nodes |-> r.nodes, disk |-> d1, node |-> r.node, exit |-> "download"]
             lookup(ns1, d1, child) ==
                 IF child = NULL
                 THEN created(d1, create_children(ns1, node, tokens))
                 ELSE IF recursive /\ was_recently_downloaded(ns1[child])
                         /\ ns1[child].error = 0
                 THEN [nodes |-> ns1, disk |-> d1, node |-> child, exit |-> "end"]
                 ELSE walk(ns1, d1, child, Tail(tokens), recursive)
             descend(ns1, d1) == lookup(ns1, d1, HASH_FIND_STR(ns1, node, Head(tokens)))
         IN  IF isfile
             THEN descend([ns EXCEPT ![node].flags = 0],
                          delete_node_file(ns, d, node, TRUE))
             ELSE descend(ns, d)

\* Variant: the time of the attempt is not recorded.
downloaded_unstamped(node, error, recursive, tt) ==
    LET n1 == [node EXCEPT !.error = error, !.flags = CNF_DIRECT]
    IN  IF error = 0
        THEN [n1 EXCEPT !.flags = BitOr(@, BitOr(CNF_SUCCESS,
                                           IF recursive THEN 0 ELSE CNF_FILE)),
                        !.ts_success = tt]
        ELSE n1

\* Variant: DIRECT is added to the flags the node had.
downloaded_or_flags(node, error, recursive, tt) ==
    LET n1 == [node EXCEPT !.error = error, !.flags = BitOr(@, CNF_DIRECT),
                           !.ts_attempt = tt]
    IN  IF error = 0
        THEN [n1 EXCEPT !.flags = BitOr(@, BitOr(CNF_SUCCESS,
                                           IF recursive THEN 0 ELSE CNF_FILE)),
                        !.ts_success = tt]
        ELSE n1

\* The node after the fetch returned `error` at time tt.
downloaded(node, error, recursive, tt) ==
    LET n1 == [node EXCEPT !.error = error, !.flags = CNF_DIRECT, !.ts_attempt = tt]
    IN  IF error = 0
        THEN [n1 EXCEPT !.flags = BitOr(@, BitOr(CNF_SUCCESS,
                                           IF recursive THEN 0 ELSE CNF_FILE)),
                        !.ts_success = tt]
        ELSE n1

\* Result: [nodes, disk, error, fetched, node].
cache_download(uri, result) ==
    LET recursive == (uri.type = UT_RSYNC)
        root == IF uri.type = UT_RSYNC THEN rsync ELSE https
        \* the label download: fetch into d1, update the node, drop its children
        download(w, d1) ==
            [nodes |-> drop_children(
                          [w.nodes EXCEPT ![w.node] =
                              downloaded(@, result, recursive, now)], w.node),
             disk |-> fetch(d1, uri, result),
             error |-> result, fetched |-> TRUE, node |-> w.node]
        \* what follows the while loop
        after(w) ==
            IF w.exit = "end"
            THEN [nodes |-> w.nodes, disk |-> w.disk, error |-> 0,
                  fetched |-> FALSE, node |-> w.node]
            ELSE IF w.exit = "walked" /\ was_recently_downloaded(w.nodes[w.node])
            THEN [nodes |-> w.nodes, disk |-> w.disk,
                  error |-> w.nodes[w.node].error, fetched |-> FALSE, node |-> w.node]
            ELSE IF w.exit = "walked" /\ ~recursive
                    /\ ~HasFlag(w.nodes[w.node].flags, CNF_FILE)
            THEN download(w, delete_node_file(w.nodes, w.disk, w.node, FALSE))
            ELSE download(w, w.disk)
    IN  after(walk(nodes, disk, root, uri.path, recursive))

-----------------------------------------------------------------------------
(* Cleanup sweeper *)

\* The file system call that fails during a sweep, if any:
\* kind "none", or "stat" / "opendir" / "readdir" failing at `path` (stat with
\* an errno other than ENOENT; readdir after delivering `pos` entries).
NoFault == [kind |-> "none", path |-> <<>>, pos |-> 0]

FaultPaths(d) == {p \in DOMAIN d : Len(p) <= MaxFaultDepth}

Faults(d) ==
    {NoFault} \cup
    [kind : {"stat", "opendir"}, path : FaultPaths(d), pos : {0}] \cup
    [kind : {"readdir"}, path : {p \in FaultPaths(d) : d[p] = "dir"},
     pos : 0..MaxFaultPos]

\* Variant: nothing is deleted.
path_rm_rf_none(d, path) == d

path_rm_rf(d, path) == file_rm_rf(d, path)

\* Variant: children that the scan did not find are kept as well.
sweep_children_keep(ns, children) ==
    [i \in DOMAIN ns |->
        IF \E k \in 1..Len(children) : children[k] = i
        THEN [ns[i] EXCEPT !.flags = BitClear(@, CNF_FOUND)]
        ELSE ns[i]]

\* The nodes of the subtree rooted at id.
RECURSIVE Subtree(_, _)
Subtree(ns, id) ==
    {id} \cup UNION {Subtree(ns, ns[id].children[i]) : i \in 1..Len(ns[id].children)}

\* The HASH_ITER loop that ends the scan of a directory.
RECURSIVE sweep_children(_, _)
sweep_children(ns, children) ==
    IF children = <<>> THEN ns
    ELSE LET child == Head(children)
             ns1 == IF HasFlag(ns[child].flags, CNF_FOUND)
                    THEN [ns EXCEPT ![child].flags = BitClear(@, CNF_FOUND)]
                    ELSE delete_node(ns, child, FALSE)
         IN  sweep_children(ns1, Tail(children))

\* State of a sweep: [nodes, disk, done, early].  done holds the nodes of the
\* subtrees whose sweep has returned; early tells whether, when the sweep of
\* some subtree began, a node of done carried FOUND.
RECURSIVE cleanup_recursive(_, _, _, _)
RECURSIVE scan_dir(_, _, _, _, _)

\* The FOREACH_DIR_FILE loop over the entries `files` of the node's directory.
scan_dir(st, node, path, files, fault) ==
    IF files = <<>> THEN st
    ELSE LET entry(child) ==
                 IF child # NULL
                 THEN cleanup_recursive(
                         [st EXCEPT !.nodes[child].flags = BitOr(@, CNF_FOUND)],
                         child, path, fault)
                 ELSE [st EXCEPT !.disk = path_rm_rf(@, Append(path, Head(files)))]
         IN  scan_dir(entry(HASH_FIND_STR(st.nodes, node, Head(files))),
                      node, path, Tail(files), fault)

cleanup_recursive(entered, node, pb, fault) ==
    LET path == Append(pb, entered.nodes[node].basename)
        failing(kind) == fault.kind = kind /\ fault.path = path
        \* readdir() delivers the entries, all or up to the failure
        delivered(files) ==
            IF failing("readdir") /\ fault.pos < Len(files)
            THEN SubSeq(files, 1, fault.pos) ELSE files
        \* after the HASH_ITER loop
        rest(st, swept) ==
            IF swept[node].children = <<>> /\ ~is_root(swept[node])
            THEN [st EXCEPT !.nodes = delete_node(swept, node, FALSE),
                            !.disk = path_rm_rf(@, path)]
            ELSE [st EXCEPT !.nodes = swept]
        \* after closedir()
        closed(scanned) ==
            IF failing("readdir") THEN scanned
            ELSE rest(scanned,
                      sweep_children(scanned.nodes, scanned.nodes[node].children))
        \* the function, from its first statement to the label end
        body(st) ==
            IF failing("stat") THEN st
            ELSE IF path \notin DOMAIN st.disk
            THEN [st EXCEPT !.nodes = delete_node(@, node, FALSE)]
            ELSE IF was_recently_downloaded(st.nodes[node]) /\ st.nodes[node].error = 0
            THEN st
            ELSE IF st.disk[path] = "file"
            THEN [st EXCEPT !.nodes = delete_node(@, node, FALSE),
                            !.disk = remove(@, path)]
            ELSE IF st.disk[path] = "dir"
            THEN IF failing("opendir") THEN st
                 ELSE closed(scan_dir(st, node, path,
                                      delivered(DirListing(st.disk, path)), fault))
            ELSE [st EXCEPT !.nodes = delete_node(@, node, FALSE),
                            !.disk = remove(@, path)]
        \* the sweep of the subtree has returned
        returned(st) ==
            [st EXCEPT !.done = @ \cup (IF node \in DOMAIN st.nodes
                                        THEN Subtree(st.nodes, node) ELSE {})]
    IN  returned(body(
            [entered EXCEPT !.early =
                @ \/ \E n \in entered.done \cap DOMAIN entered.nodes :
                        HasFlag(entered.nodes[n].flags, CNF_FOUND)]))

\* Result: [nodes, disk, meta, early].
cache_cleanup(fault) ==
    LET written(st) ==
            [nodes |-> st.nodes, disk |-> st.disk,
             meta |-> write_metadata_json(st.nodes), early |-> st.early]
    IN  written(cleanup_recursive(
                    cleanup_recursive([nodes |-> nodes, disk |-> disk,
                                       done |-> {}, early |-> FALSE],
                                      rsync, <<>>, fault),
                    https, <<>>, fault))

-----------------------------------------------------------------------------
(* cache_teardown *)

cache_teardown(ns) == destroy_tree(destroy_tree(ns, rsync), https)

-----------------------------------------------------------------------------
(* Initial contents of the local repository *)

\* A metadata.json edited by hand: two siblings named "a" under rsync, the
\* later one flagged SUCCESS and FILE without DIRECT.
EditedMetadata ==
    [kind |-> "array",
     a |-> << JObject(JStr("rsync"), JInt(0), tt2json(0), tt2json(0), JInt(0),
                      JArray(<< JObject(JStr("a"), JInt(0), tt2json(0), tt2json(0),
                                        JInt(0), JAbsent),
                                JObject(JStr("a"), JInt(CNF_SUCCESS + CNF_FILE),
                                        tt2json(0), tt2json(0), JInt(0), JAbsent) >>)),
              JObject(JStr("https"), JInt(0), tt2json(0), tt2json(0), JInt(0),
                      JAbsent) >>]

\* A metadata.json in which one node object is malformed (rsync/a/a: "flags"
\* is a string) and one top-level object is of no known transport.
MalformedMetadata ==
    [kind |-> "array",
     a |-> << JObject(JStr("rsync"), JInt(0), tt2json(0), tt2json(0), JInt(0),
                      JArray(<< JObject(JStr("a"), JInt(0), tt2json(0), tt2json(0),
                                        JInt(0),
                                        JArray(<< JObject(JStr("a"), JStr("3"),
                                                          tt2json(0), tt2json(0),
                                                          JInt(0), JAbsent) >>)),
                                JObject(JStr("b"), JInt(0), tt2json(0), tt2json(0),
                                        JInt(0), JAbsent) >>)),
              JObject(JStr("https"), JInt(0), tt2json(0), tt2json(0), JInt(0),
                      JArray(<< JObject(JStr("a"), JInt(0), tt2json(0), tt2json(0),
                                        JInt(0), JAbsent) >>)),
              JObject(JStr("ftp"), JInt(0), tt2json(0), tt2json(0), JInt(0),
                      JAbsent) >>]

\* A metadata.json whose root tag is not an array.
NotArrayMetadata == [kind |-> "object", a |-> <<>>]

EditedFiles == {EditedMetadata, MalformedMetadata, NotArrayMetadata}

NoMetadata == [kind |-> "absent", a |-> <<>>]

EmptyDisk == [p \in {} |-> "dir"]

SeededDisk ==
    [p \in {<<"rsync">>, <<"rsync", "a">>, <<"rsync", "a", "x">>,
            <<"https">>, <<"https", "stale.txt">>} |->
        IF p \in {<<"rsync", "a", "x">>, <<"https", "stale.txt">>}
        THEN "file" ELSE "dir"]


-----------------------------------------------------------------------------
(* The overlay loader (src/unnamed/part_000): JSON access *)

\* A json_int_t is 64 bits wide; it is kept as hi * 2^16 + lo, 0 <= lo < 2^16.
Wide(hi, lo) == [hi |-> hi, lo |-> lo]
ToWide(n) == Wide(n \div 65536, n % 65536)
WideLe(a, b) == a.hi < b.hi \/ (a.hi = b.hi /\ a.lo <= b.lo)
UINT32_MAX == Wide(65535, 65535)

EINVAL == 22
ENOENT == 2
AF_INET == 2
AF_INET6 == 10

\* A JSON object as jansson holds it: the members present, by name.
JMembers(m) == [t |-> "object", m |-> m]
\* A JSON string, by the parts the loader looks at.  A prefix string is the
\* tokens strtok(.., "/") finds: an address (does it hold ':', does it decode,
\* how many leading bits reach its lowest set bit) and, when a second token
\* exists, a length text (is it a number, which).
JText(s) == [t |-> "str", kind |-> "text", s |-> s]
JPrefixText(colon, decodes, bits, len) ==
    [t |-> "str", kind |-> "prefix",
     addr |-> [colon |-> colon, decodes |-> decodes, bits |-> bits], len |-> len]
Token(present, numeric, v) == [present |-> present, numeric |-> numeric, v |-> v]
\* A base64url string: does it hold '=', how many characters, are they all of
\* the alphabet.
JBase64(eq, chars, alphabet) ==
    [t |-> "str", kind |-> "base64", eq |-> eq, chars |-> chars,
     alphabet |-> alphabet]

json_is_object(j) == j.t = "object"
\* json_object_get: the member, or JAbsent for NULL (no such member, or the
\* parent is no object).
json_object_get(parent, name) ==
    IF json_is_object(parent) /\ name \in DOMAIN parent.m
    THEN parent.m[name] ELSE JAbsent

\* json_get_string: [error, result]; result JAbsent is the NULL string.
json_get_string(parent, name) ==
    LET child == json_object_get(parent, name) IN
    IF child = JAbsent THEN [error |-> 0, result |-> JAbsent]
    ELSE IF child.t # "str" THEN [error |-> -EINVAL, result |-> JAbsent]
    ELSE [error |-> 0, result |-> child]

\* json_get_int: [error, result]; an absent member yields 0.  On error the
\* caller's variable keeps the value it had (init).
json_get_int(parent, name, init) ==
    LET child == json_object_get(parent, name) IN
    IF child = JAbsent THEN [error |-> 0, result |-> ToWide(0)]
    ELSE IF ~json_is_integer(child) THEN [error |-> -EINVAL, result |-> init]
    ELSE [error |-> 0, result |-> child.i]

\* json_get_array, json_get_object: the child, or JAbsent for NULL.
json_get_array(parent, name) ==
    LET child == json_object_get(parent, name) IN
    IF child = JAbsent THEN JAbsent
    ELSE IF ~json_is_array(child) THEN JAbsent
    ELSE child

json_get_object(parent, name) ==
    LET child == json_object_get(parent, name) IN
    IF child = JAbsent THEN JAbsent
    ELSE IF ~json_is_object(child) THEN JAbsent
    ELSE child

-----------------------------------------------------------------------------
(* The overlay loader: records *)

SLURM_COM_FLAG_ASN == "ASN"
SLURM_COM_FLAG_COMMENT == "COMMENT"
SLURM_PFX_FLAG_PREFIX == "PREFIX"
SLURM_PFX_FLAG_MAX_LENGTH == "MAX_LENGTH"
SLURM_BGPS_FLAG_SKI == "SKI"
SLURM_BGPS_FLAG_ROUTER_KEY == "ROUTER_KEY"

\* struct slurm_prefix / struct slurm_bgpsec on the stack of load_single_*:
\* only data_flag is initialised (SLURM_COM_FLAG_NONE, no flag); a field
\* holds a value once its flag is set.
slurm_prefix ==
    [data_flag |-> {}, asn |-> "uninitialised",
     addr_fam |-> "uninitialised", prefix_length |-> "uninitialised",
     max_prefix_length |-> "uninitialised"]
slurm_bgpsec == [data_flag |-> {}, asn |-> "uninitialised"]

\* The decoders of the address library: an address text decodes or not; a
\* length text must be a number in 0 .. max_value; the bits below the prefix
\* length must be zero.
prefix_decode(addr) == IF addr.decodes THEN 0 ELSE -EINVAL
prefix_length_decode(text, max_value) ==
    IF text.numeric /\ 0 <= text.v /\ text.v <= max_value THEN 0 ELSE -EINVAL
prefix_validate(addr, len) == IF addr.bits <= len THEN 0 ELSE -EINVAL

parse_prefix(addr) == prefix_decode(addr)
parse_prefix_length(text, max_value) ==
    IF ~text.present THEN -EINVAL ELSE prefix_length_decode(text, max_value)

\* set_asn: [error, result] with result the record after the call.
set_asn(object, is_assertion, result) ==
    LET got == json_get_int(object, "asn", ToWide(0))
        int_tmp == got.result
    IN
    IF got.error # 0 THEN [error |-> got.error, result |-> result]
    ELSE IF int_tmp = ToWide(0)
    THEN [error |-> IF is_assertion THEN -EINVAL ELSE 0, result |-> result]
    ELSE IF WideLe(int_tmp, ToWide(0)) \/ ~WideLe(int_tmp, UINT32_MAX)
    THEN [error |-> -EINVAL, result |-> result]
    ELSE [error |-> 0,
          result |-> [result EXCEPT
                        !.data_flag = @ \cup {SLURM_COM_FLAG_ASN},
                        !.asn = int_tmp]]

set_comment(object, result) ==
    LET got == json_get_string(object, "comment") IN
    IF got.error # 0 THEN [error |-> got.error, result |-> result]
    ELSE IF got.result # JAbsent
    THEN [error |-> 0,
          result |-> [result EXCEPT !.data_flag = @ \cup {SLURM_COM_FLAG_COMMENT}]]
    ELSE [error |-> 0, result |-> result]

set_prefix(object, is_assertion, result) ==
    LET got == json_get_string(object, "prefix")
        str_prefix == got.result
    IN
    IF got.error # 0 THEN [error |-> got.error, result |-> result]
    ELSE IF str_prefix = JAbsent
    THEN [error |-> IF is_assertion THEN -EINVAL ELSE 0, result |-> result]
    ELSE
    LET isv4 == ~str_prefix.addr.colon
        max_value == IF isv4 THEN 32 ELSE 128
        e1 == parse_prefix(str_prefix.addr)
        e2 == parse_prefix_length(str_prefix.len, max_value)
        e3 == prefix_validate(str_prefix.addr, str_prefix.len.v)
    IN
    IF e1 # 0 THEN [error |-> e1, result |-> result]
    ELSE IF e2 # 0 THEN [error |-> e2, result |-> result]
    ELSE IF e3 # 0 THEN [error |-> e3, result |-> result]
    ELSE [error |-> 0,
          result |-> [result EXCEPT
                        !.addr_fam = IF isv4 THEN AF_INET ELSE AF_INET6,
                        !.prefix_length = str_prefix.len.v,
                        !.data_flag = @ \cup {SLURM_PFX_FLAG_PREFIX}]]

set_max_prefix_length(object, is_assertion, result) ==
    IF ~is_assertion THEN [error |-> 0, result |-> result]
    ELSE
    LET got == json_get_int(object, "maxPrefixLength", ToWide(0))
        int_tmp == got.result
        family_max == IF result.addr_fam = AF_INET THEN 32 ELSE 128
    IN
    IF got.error # 0 THEN [error |-> got.error, result |-> result]
    ELSE IF int_tmp = ToWide(0) THEN [error |-> 0, result |-> result]
    ELSE IF WideLe(int_tmp, ToWide(0)) \/ ~WideLe(int_tmp, ToWide(family_max))
    THEN [error |-> -EINVAL, result |-> result]
    ELSE [error |-> 0,
          result |-> [result EXCEPT
                        !.data_flag = @ \cup {SLURM_PFX_FLAG_MAX_LENGTH},
                        !.max_prefix_length = int_tmp.lo % 256]]

\* base64_decode of the library: fails on a character outside the alphabet,
\* else yields three bytes for every four characters.
base64_decode(str_copy) ==
    IF str_copy.alphabet
    THEN [error |-> 0, dec_len |-> (str_copy.chars * 3) \div 4]
    ELSE [error |-> -EINVAL, dec_len |-> 0]

decode_base64url(str_encoded) ==
    IF str_encoded.eq THEN -EINVAL
    ELSE
    LET dec == base64_decode(str_encoded) IN
    IF dec.error # 0 THEN dec.error
    ELSE IF dec.dec_len = 0 THEN -EINVAL
    ELSE 0

set_ski(object, is_assertion, result) ==
    LET got == json_get_string(object, "SKI")
        str_encoded == got.result
    IN
    IF got.error # 0 THEN [error |-> got.error, result |-> result]
    ELSE IF str_encoded = JAbsent
    THEN [error |-> IF is_assertion THEN -EINVAL ELSE 0, result |-> result]
    ELSE IF decode_base64url(str_encoded) # 0
    THEN [error |-> decode_base64url(str_encoded), result |-> result]
    ELSE [error |-> 0,
          result |-> [result EXCEPT !.data_flag = @ \cup {SLURM_BGPS_FLAG_SKI}]]

set_router_pub_key(object, is_assertion, result) ==
    IF ~is_assertion THEN [error |-> 0, result |-> result]
    ELSE
    LET got == json_get_string(object, "routerPublicKey")
        str_encoded == got.result
    IN
    IF got.error # 0 THEN [error |-> got.error, result |-> result]
    ELSE IF str_encoded = JAbsent THEN [error |-> -EINVAL, result |-> result]
    ELSE IF decode_base64url(str_encoded) # 0
    THEN [error |-> decode_base64url(str_encoded), result |-> result]
    ELSE [error |-> 0,
          result |-> [result EXCEPT
                        !.data_flag = @ \cup {SLURM_BGPS_FLAG_ROUTER_KEY}]]

\* A loader that does not compare the prefix length with the maximum.
load_single_prefix_uncompared(object, is_assertion) ==
    IF ~json_is_object(object) THEN [error |-> -EINVAL, result |-> slurm_prefix]
    ELSE
    LET a == set_asn(object, is_assertion, slurm_prefix)
        p == set_prefix(object, is_assertion, a.result)
        c == set_comment(object, p.result)
        m == set_max_prefix_length(object, is_assertion, c.result)
    IN
    IF a.error # 0 THEN a
    ELSE IF p.error # 0 THEN p
    ELSE IF c.error # 0 THEN c
    ELSE m

\* load_single_prefix: [error, result].
load_single_prefix(object, is_assertion) ==
    IF ~json_is_object(object) THEN [error |-> -EINVAL, result |-> slurm_prefix]
    ELSE
    LET a == set_asn(object, is_assertion, slurm_prefix)
        p == set_prefix(object, is_assertion, a.result)
        c == set_comment(object, p.result)
        m == set_max_prefix_length(object, is_assertion, c.result)
    IN
    IF a.error # 0 THEN a
    ELSE IF p.error # 0 THEN p
    ELSE IF c.error # 0 THEN c
    ELSE IF m.error # 0 THEN m
    ELSE IF /\ is_assertion
            /\ SLURM_PFX_FLAG_MAX_LENGTH \in m.result.data_flag
            /\ m.result.prefix_length > m.result.max_prefix_length
    THEN [error |-> -EINVAL, result |-> m.result]
    ELSE [error |-> 0, result |-> m.result]

load_single_bgpsec(object, is_assertion) ==
    IF ~json_is_object(object) THEN [error |-> -EINVAL, result |-> slurm_bgpsec]
    ELSE
    LET a == set_asn(object, is_assertion, slurm_bgpsec)
        s == set_ski(object, is_assertion, a.result)
        k == set_router_pub_key(object, is_assertion, s.result)
        c == set_comment(object, k.result)
    IN
    IF a.error # 0 THEN a
    ELSE IF s.error # 0 THEN s
    ELSE IF k.error # 0 THEN k
    ELSE c

-----------------------------------------------------------------------------
(* The overlay loader: arrays and document *)

\* A loader that gives up at the first element that fails.
load_prefix_array_stop(array, is_assertion) ==
    LET failing == { i \in 1..json_array_size(array) :
                       load_single_prefix(array.a[i], is_assertion).error # 0 }
        last_index == IF failing = {} THEN json_array_size(array)
                      ELSE CHOOSE i \in failing : \A j \in failing : i <= j
    IN
    [error |-> IF failing = {} THEN 0
               ELSE load_single_prefix(array.a[last_index], is_assertion).error,
     processed |-> [index \in 1..last_index |->
                      [family |-> "prefix", is_assertion |-> is_assertion,
                       index |-> index,
                       outcome |-> load_single_prefix(array.a[index], is_assertion)]]]

\* load_prefix_array, load_bgpsec_array: [error, processed]; every element
\* is visited, in order, and the return value is always 0.  processed tells
\* what was done with each element: load_single_* ran on it (family,
\* is_assertion, index) and gave this outcome (error and record).
load_prefix_array(array, is_assertion) ==
    [error |-> 0,
     processed |-> [index \in 1..json_array_size(array) |->
                      [family |-> "prefix", is_assertion |-> is_assertion,
                       index |-> index,
                       outcome |-> load_single_prefix(array.a[index], is_assertion)]]]

load_bgpsec_array(array, is_assertion) ==
    [error |-> 0,
     processed |-> [index \in 1..json_array_size(array) |->
                      [family |-> "bgpsec", is_assertion |-> is_assertion,
                       index |-> index,
                       outcome |-> load_single_bgpsec(array.a[index], is_assertion)]]]

load_version(root) ==
    LET got == json_get_int(root, "slurmVersion", ToWide(-1)) IN
    IF got.error # 0 THEN got.error
    ELSE IF got.result # ToWide(1) THEN -EINVAL
    ELSE 0

\* load_filters: [error, processed].
load_filters(root) ==
    LET filters == json_get_object(root, "validationOutputFilters") IN
    IF filters = JAbsent THEN [error |-> -EINVAL, processed |-> <<>>]
    ELSE
    LET prefix == json_get_array(filters, "prefixFilters")
        bgpsec == json_get_array(filters, "bgpsecFilters")
    IN
    IF prefix = JAbsent THEN [error |-> -EINVAL, processed |-> <<>>]
    ELSE IF bgpsec = JAbsent THEN [error |-> -EINVAL, processed |-> <<>>]
    ELSE
    LET p == load_prefix_array(prefix, FALSE)
        b == load_bgpsec_array(bgpsec, FALSE)
    IN
    IF p.error # 0 THEN p
    ELSE [error |-> b.error, processed |-> p.processed \o b.processed]

\* load_assertions: [error, processed].
load_assertions(root) ==
    LET assertions == json_get_object(root, "locallyAddedAssertions") IN
    IF assertions = JAbsent THEN [error |-> -EINVAL, processed |-> <<>>]
    ELSE
    LET prefix == json_get_array(assertions, "prefixAssertions")
        bgpsec == json_get_array(assertions, "bgpsecAssertions")
    IN
    IF prefix = JAbsent THEN [error |-> -EINVAL, processed |-> <<>>]
    ELSE IF bgpsec = JAbsent THEN [error |-> -EINVAL, processed |-> <<>>]
    ELSE
    LET p == load_prefix_array(prefix, TRUE)
        b == load_bgpsec_array(bgpsec, TRUE)
    IN
    IF p.error # 0 THEN p
    ELSE [error |-> b.error, processed |-> p.processed \o b.processed]

\* handle_json: [error, processed].
handle_json(root) ==
    IF ~json_is_object(root) THEN [error |-> -EINVAL, processed |-> <<>>]
    ELSE IF load_version(root) # 0
    THEN [error |-> load_version(root), processed |-> <<>>]
    ELSE
    LET f == load_filters(root)
        a == load_assertions(root)
    IN
    IF f.error # 0 THEN f
    ELSE [error |-> a.error, processed |-> f.processed \o a.processed]

\* The configuration and the file behind it: no location configured, a file
\* json_load_file cannot load (absent, not JSON, duplicate members), or a
\* document.
Config(location, loads, root) ==
    [location |-> location, loads |-> loads, root |-> root]

\* slurm_load: [error, processed].
slurm_load(config) ==
    IF ~config.location THEN [error |-> 0, processed |-> <<>>]
    ELSE IF ~config.loads THEN [error |-> -ENOENT, processed |-> <<>>]
    ELSE handle_json(config.root)

-----------------------------------------------------------------------------
(* Overlay documents *)

\* An object holding the members of vals that are not JAbsent.
Members(vals) ==
    JMembers([name \in {n \in DOMAIN vals : vals[n] # JAbsent} |-> vals[name]])

AsnValues ==
    {JAbsent, JInt(ToWide(-1)), JInt(ToWide(0)), JInt(ToWide(1)),
     JInt(ToWide(64496)), JInt(UINT32_MAX), JInt(Wide(65536, 0)), JText("64496")}

\* "10.0.0.0/8", "10.0.0.0/24", "10.1.0.0/8" (host bits set), "10.0.0.0/33",
\* "10.0.0.0", "10.0.0/8" (no address), "10.0.0.0/x", "2001:db8::/32",
\* "2001:db8::/48", "2001:db8::/129", and a member that is no string.
PrefixValues ==
    {JAbsent,
     JPrefixText(FALSE, TRUE, 7, Token(TRUE, TRUE, 8)),
     JPrefixText(FALSE, TRUE, 7, Token(TRUE, TRUE, 24)),
     JPrefixText(FALSE, TRUE, 16, Token(TRUE, TRUE, 8)),
     JPrefixText(FALSE, TRUE, 7, Token(TRUE, TRUE, 33)),
     JPrefixText(FALSE, TRUE, 7, Token(FALSE, FALSE, 0)),
     JPrefixText(FALSE, FALSE, 0, Token(TRUE, TRUE, 8)),
     JPrefixText(FALSE, TRUE, 7, Token(TRUE, FALSE, 0)),
     JPrefixText(TRUE, TRUE, 29, Token(TRUE, TRUE, 32)),
     JPrefixText(TRUE, TRUE, 29, Token(TRUE, TRUE, 48)),
     JPrefixText(TRUE, TRUE, 29, Token(TRUE, TRUE, 129)),
     JInt(ToWide(10))}

MaxPrefixLengthValues ==
    {JAbsent, JText("24")} \cup
    {JInt(ToWide(v)) : v \in {-1, 0, 7, 8, 23, 24, 32, 33, 47, 48, 128, 129, 256}}


\* "abc-_", "", "a", "abc=", "ab*d", and a member that is no string.
Base64Values ==
    {JAbsent, JBase64(FALSE, 5, TRUE), JBase64(FALSE, 0, TRUE),
     JBase64(FALSE, 1, TRUE), JBase64(TRUE, 4, TRUE), JBase64(FALSE, 4, FALSE),
     JInt(ToWide(7))}

PrefixElements ==
    { Members([asn |-> asn, prefix |-> prefix, maxPrefixLength |-> max]) :
        asn \in AsnValues, prefix \in PrefixValues,
        max \in MaxPrefixLengthValues }
    \cup
    { Members([asn |-> JInt(ToWide(64496)),
               prefix |-> JPrefixText(FALSE, TRUE, 7, Token(TRUE, TRUE, 8)),
               comment |-> comment]) : comment \in {JText("note"), JInt(ToWide(0))} }

BgpsecElements ==
    { Members([asn |-> asn, SKI |-> ski, routerPublicKey |-> key]) :
        asn \in AsnValues, ski \in Base64Values, key \in Base64Values }
    \cup
    { Members([asn |-> JInt(ToWide(64496)), SKI |-> JBase64(FALSE, 5, TRUE),
               routerPublicKey |-> JBase64(FALSE, 5, TRUE),
               comment |-> comment]) : comment \in {JText("note"), JInt(ToWide(0))} }

\* A record that loads in either mode.
GoodPrefix ==
    Members([asn |-> JInt(ToWide(64496)),
             prefix |-> JPrefixText(FALSE, TRUE, 7, Token(TRUE, TRUE, 8))])
GoodBgpsec ==
    Members([asn |-> JInt(ToWide(64496)), SKI |-> JBase64(FALSE, 5, TRUE),
             routerPublicKey |-> JBase64(FALSE, 5, TRUE)])

\* The shapes a required array member takes: absent, not an array, empty,
\* and arrays of up to MaxElements elements, all but the last of them
\* elements that are no objects.
MaxElements == 2
ArrayShapes(good) ==
    {JAbsent, JText("not an array"), JArray(<<>>)} \cup
    { JArray([i \in 1..n |-> IF i < n THEN JText("not an object") ELSE good]) :
        n \in 1..MaxElements }

ContainerShapes(prefix_name, bgpsec_name) ==
    {JAbsent, JArray(<<>>)} \cup
    { Members(prefix_name :> p @@ bgpsec_name :> b) :
        p \in ArrayShapes(GoodPrefix), b \in ArrayShapes(GoodBgpsec) }

\* A well-shaped document with the given arrays of records.
Records(pf, bf, pa, ba) ==
    Members([slurmVersion |-> JInt(ToWide(1)),
             validationOutputFilters |->
                 Members([prefixFilters |-> JArray(pf),
                          bgpsecFilters |-> JArray(bf)]),
             locallyAddedAssertions |->
                 Members([prefixAssertions |-> JArray(pa),
                          bgpsecAssertions |-> JArray(ba)])])

\* Documents that vary the shape of the document around fixed records.
ShapeDocuments ==
    {JArray(<<>>)} \cup
    { Members([slurmVersion |-> version, validationOutputFilters |-> filters,
               locallyAddedAssertions |-> assertions]) :
        version \in {JAbsent, JInt(ToWide(0)), JInt(ToWide(1)), JInt(ToWide(2)),
                     JText("1")},
        filters \in ContainerShapes("prefixFilters", "bgpsecFilters"),
        assertions \in ContainerShapes("prefixAssertions", "bgpsecAssertions") }

\* Well-shaped documents that vary one record, the first of one array; a
\* good record follows it.
RecordDocuments ==
    UNION { { Records(<<e, GoodPrefix>>, <<>>, <<>>, <<>>),
              Records(<<>>, <<>>, <<e, GoodPrefix>>, <<>>) } :
              e \in PrefixElements }
    \cup
    UNION { { Records(<<>>, <<e, GoodBgpsec>>, <<>>, <<>>),
              Records(<<>>, <<>>, <<>>, <<e, GoodBgpsec>>) } :
              e \in BgpsecElements }

SlurmConfigs ==
    {Config(FALSE, FALSE, JAbsent), Config(TRUE, FALSE, JAbsent)}
    \cup { Config(TRUE, TRUE, root) : root \in ShapeDocuments \cup RecordDocuments }

-----------------------------------------------------------------------------
(* The state machine *)

NoUri == [type |-> "", path |-> <<>>]

Called(op) ==
    [op |-> op, uri |-> NoUri, fetched |-> FALSE, result |-> 0, ret |-> 0,
     below |-> 0, entries |-> 0, removed |-> 0,
     fault |-> FALSE, loaded |-> FALSE, early |-> FALSE,
     wasFetchedOk |-> FALSE, wasIntact |-> FALSE,
     wasOkRsync |-> FALSE, wasOkKept |-> FALSE]

RootsLive == rsync \in DOMAIN nodes /\ https \in DOMAIN nodes

\* The nodes of both trees; none once cache_teardown has freed the roots.
TreeNodes ==
    IF RootsLive THEN Subtree(nodes, rsync) \cup Subtree(nodes, https) ELSE {}

OnDisk(n) == NodePath(nodes, n) \in DOMAIN disk

\* What the sweep is asked to keep: nodes fetched successfully in this run
\* whose path exists, as [path, flags, error, ts_success, ts_attempt].
KeptNodes ==
    { [path |-> NodePath(nodes, n), flags |-> nodes[n].flags,
       error |-> nodes[n].error, ts_success |-> nodes[n].ts_success,
       ts_attempt |-> nodes[n].ts_attempt] :
      n \in {m \in TreeNodes : /\ HasFlag(nodes[m].flags, CNF_DIRECT)
                                /\ startup_time <= nodes[m].ts_attempt
                                /\ nodes[m].error = 0
                                /\ OnDisk(m)} }

\* The trees as a set of [path, flags, error, ts_success, ts_attempt], one
\* per node: what they hold, whatever the order of siblings.
TreeView(ns) ==
    { [path |-> NodePath(ns, n), flags |-> ns[n].flags, error |-> ns[n].error,
       ts_success |-> ns[n].ts_success, ts_attempt |-> ns[n].ts_attempt] :
      n \in Subtree(ns, rsync) \cup Subtree(ns, https) }

NotDumped == [written |-> FALSE, tree |-> {}]

\* The overlay loader before slurm_load is called.
NoSlurm == [pc |-> "none"]

\* The cache of a process starting over the local repository (file, d).
BootCache(file, d) ==
    /\ nodes = <<>>
    /\ rsync = NULL
    /\ https = NULL
    /\ startup_time = 0
    /\ now = 1
    /\ meta = file
    /\ disk = d
    /\ phase = "boot"
    /\ last = Called("start")
    /\ fetchedOk = {}
    /\ intact = {}
    /\ okRsync = {}
    /\ okKept = {}
    /\ kept = {}
    /\ dumped = NotDumped
    /\ attempted = {}
    /\ ndl = 0
    /\ steps = 0

\* A process starting over the local repository (file, d); the overlay
\* loader has not been called.
Boot(file, d) == BootCache(file, d) /\ slurm = NoSlurm

\* Cold start: an empty cache directory.
Init == Boot(NoMetadata, EmptyDisk)

\* Start over a repository whose metadata.json was edited by hand.
InitEdited == \E file \in EditedFiles : Boot(file, SeededDisk)

NewRun ==
    /\ fetchedOk' = {}
    /\ intact' = {}
    /\ okRsync' = {}
    /\ okKept' = {}

\* time(NULL) advances.
Tick ==
    /\ UNCHANGED slurm
    /\ now < MaxNow
    /\ phase # "undefined"
    /\ now' = now + 1
    /\ UNCHANGED <<nodes, rsync, https, startup_time, disk, meta, phase, last,
                   fetchedOk, intact, okRsync, okKept, kept, dumped, attempted,
                   ndl, steps>>

Prepare ==
    /\ UNCHANGED slurm
    /\ phase # "undefined"
    /\ startup_time' = now
    /\ IF rsync = NULL
       THEN \E tm_isdst \in {-1, 0, 1} :
                LET loaded(r) == nodes' = r.nodes /\ rsync' = r.rsync /\ https' = r.https
                IN  loaded(load_metadata_json(nodes, meta, tm_isdst))
       ELSE UNCHANGED <<nodes, rsync, https>>
    /\ phase' = "run"
    /\ last' = [Called("prepare") EXCEPT !.loaded = (rsync = NULL)]
    /\ NewRun
    /\ steps < MaxSteps
    /\ steps' = steps + 1
    /\ attempted' = {}
    /\ UNCHANGED <<kept, dumped, ndl, now, disk, meta>>

\* The entries of the disk beneath a path.
Beneath(d, path) == {p \in DOMAIN d : IsProperPrefix(path, p)}

\* URIs of the same transport as `uri` that a download of `uri` returning r
\* leaves without a fresh node or cover: over rsync those beneath it when its
\* fetch failed; over HTTP those beneath it when it was fetched, and those it
\* descends through.
Disturbed(uri, r) ==
    {u \in Uris :
        /\ u.type = uri.type
        /\ \/ /\ IsProperPrefix(uri.path, u.path)
              /\ r.fetched
              /\ (uri.type = UT_HTTPS \/ r.error # 0)
           \/ (uri.type = UT_HTTPS /\ IsProperPrefix(u.path, uri.path))}

Download(max, uri, result) ==
    /\ UNCHANGED slurm
    /\ ndl < max
    /\ phase = "run"
    /\ RootsLive
    /\ LET returned(r) ==
           /\ nodes' = r.nodes
           /\ disk' = r.disk
           /\ last' = [op |-> "download", uri |-> uri, fetched |-> r.fetched,
                       result |-> IF r.fetched THEN result ELSE 0,
                       below |-> IF r.fetched /\ r.node \in DOMAIN nodes
                                 THEN Cardinality(Subtree(nodes, r.node)) - 1
                                 ELSE 0,
                       removed |-> 0,
                       entries |-> IF r.fetched /\ r.node \in DOMAIN nodes
                                   THEN Cardinality(Beneath(disk, NodePath(nodes, r.node)))
                                   ELSE 0,
                       ret |-> r.error, fault |-> FALSE, loaded |-> FALSE,
                       early |-> FALSE,
                       wasFetchedOk |-> uri \in fetchedOk,
                       wasIntact |-> uri \in intact,
                       wasOkRsync |-> (uri.type = UT_RSYNC /\ \E p \in okRsync :
                                           IsProperPrefix(p, uri.path)),
                       wasOkKept |-> (uri.type = UT_RSYNC /\ \E p \in okKept :
                                           IsProperPrefix(p, uri.path))]
           /\ attempted' = (attempted \cup (IF r.fetched THEN {r.node} ELSE {}))
                              \cap DOMAIN r.nodes
           /\ fetchedOk' = IF r.fetched /\ r.error = 0
                           THEN fetchedOk \cup {uri} ELSE fetchedOk
           /\ intact' = (intact \ Disturbed(uri, r)) \cup
                        (IF r.fetched /\ r.error = 0 THEN {uri} ELSE {})
           /\ okRsync' = IF uri.type = UT_RSYNC /\ r.error = 0
                         THEN okRsync \cup {uri.path} ELSE okRsync
           /\ okKept' = IF uri.type # UT_RSYNC THEN okKept
                        ELSE IF r.error = 0 THEN okKept \cup {uri.path}
                        ELSE IF r.fetched
                        THEN {p \in okKept : ~IsProperPrefix(uri.path, p)}
                        ELSE okKept
       IN  returned(cache_download(uri, result))
    /\ ndl' = ndl + 1
    /\ kept' = {}
    /\ UNCHANGED <<dumped, steps, rsync, https, startup_time, now, meta, phase>>

Cleanup(fault) ==
    /\ UNCHANGED slurm
    /\ phase = "run"
    /\ RootsLive
    /\ LET returned(r) ==
           /\ nodes' = r.nodes /\ disk' = r.disk /\ meta' = r.meta
           /\ dumped' = [written |-> TRUE, tree |-> TreeView(r.nodes)]
           /\ attempted' = attempted \cap DOMAIN r.nodes
           /\ last' = [Called("cleanup") EXCEPT
                          !.fault = (fault.kind # "none"),
                          !.removed = Cardinality((DOMAIN disk) \ DOMAIN r.disk),
                          !.early = r.early]
       IN  returned(cache_cleanup(fault))
    /\ phase' = "swept"
    /\ kept' = KeptNodes
    /\ NewRun
    /\ steps < MaxSteps
    /\ steps' = steps + 1
    /\ UNCHANGED <<ndl, rsync, https, startup_time, now>>

Teardown ==
    /\ UNCHANGED slurm
    /\ phase \in {"run", "swept"}
    /\ RootsLive
    /\ nodes' = cache_teardown(nodes)
    /\ phase' = "torn"
    /\ last' = Called("teardown")
    /\ NewRun
    /\ steps < MaxSteps
    /\ steps' = steps + 1
    /\ attempted' = {}
    /\ UNCHANGED <<kept, dumped, ndl, rsync, https, startup_time, now, disk, meta>>

\* A call that dereferences a root after cache_teardown freed it: the
\* behaviour of the process is undefined from here on.
UseAfterFree ==
    /\ UNCHANGED slurm
    /\ phase \in {"run", "torn"}
    /\ ~RootsLive
    /\ phase' = "undefined"
    /\ last' = Called("undefined")
    /\ NewRun
    /\ steps < MaxSteps
    /\ steps' = steps + 1
    /\ UNCHANGED <<kept, dumped, attempted, ndl, nodes, rsync, https, startup_time,
                   now, disk, meta>>

\* The process ends and a fresh one starts over the same local repository.
Restart ==
    /\ UNCHANGED slurm
    /\ phase # "boot"
    /\ nodes' = <<>>
    /\ rsync' = NULL
    /\ https' = NULL
    /\ startup_time' = 0
    /\ phase' = "boot"
    /\ last' = Called("start")
    /\ NewRun
    /\ steps < MaxSteps
    /\ steps' = steps + 1
    /\ attempted' = {}
    /\ UNCHANGED <<kept, dumped, ndl, now, disk, meta>>

Next ==
    \/ Tick
    \/ Prepare
    \/ \E uri \in Uris, result \in FetchResults : Download(MaxDownloads, uri, result)
    \/ \E fault \in Faults(disk) : Cleanup(fault)
    \/ Teardown
    \/ UseAfterFree
    \/ Restart

Spec == Init /\ [][Next]_vars

\* A single process that only downloads.
NextRun ==
    \/ Tick
    \/ Prepare
    \/ \E uri \in Uris, result \in FetchResults : Download(MaxRunDownloads, uri, result)

SpecRun == Init /\ [][NextRun]_vars

\* The same operations over the edited repository.
NextEdited ==
    \/ Tick
    \/ Prepare
    \/ \E uri \in Uris, result \in FetchResults :
          Download(MaxEditedDownloads, uri, result)
    \/ \E fault \in Faults(disk) : Cleanup(fault)
    \/ Teardown
    \/ UseAfterFree
    \/ Restart

SpecEdited == InitEdited /\ [][NextEdited]_vars

\* A process about to load its overlay: any configuration, any document.
InitSlurm ==
    /\ BootCache(NoMetadata, EmptyDisk)
    /\ slurm \in { [pc |-> "configured", config |-> config] :
                      config \in SlurmConfigs }

\* slurm_load()
SlurmLoad ==
    /\ slurm.pc = "configured"
    /\ LET done(r) ==
             slurm' = [pc |-> "loaded", config |-> slurm.config,
                       error |-> r.error, processed |-> r.processed]
       IN done(slurm_load(slurm.config))
    /\ UNCHANGED <<nodes, rsync, https, startup_time, now, disk, meta, phase,
                   last, fetchedOk, intact, okRsync, okKept, kept, dumped,
                   attempted, ndl, steps>>

\* The overlay loader over every configuration of SlurmConfigs.
SpecSlurm == InitSlurm /\ [][SlurmLoad]_vars

-----------------------------------------------------------------------------
(* Properties *)

Downloaded == last.op = "download"

NonRoots == {n \in TreeNodes : nodes[n].parent # NULL}

RECURSIVE Resolve(_, _)
Resolve(node, path) ==
    IF path = <<>> \/ node = NULL THEN node
    ELSE Resolve(HASH_FIND_STR(nodes, node, Head(path)), Tail(path))

RootOf(uri) == IF uri.type = UT_RSYNC THEN rsync ELSE https

IsFresh(n) ==
    HasFlag(nodes[n].flags, CNF_DIRECT) /\ startup_time <= nodes[n].ts_attempt

\* Every segment of uri is consumed and leads to a fresh node: the nodes
\* exist and, over rsync, no proper ancestor already covers the URI.
ReachesFresh(uri) ==
    /\ Resolve(RootOf(uri), uri.path) # NULL
    /\ IsFresh(Resolve(RootOf(uri), uri.path))
    /\ uri.type = UT_RSYNC =>
          \A k \in 1..(Len(uri.path) - 1) :
              LET anc == Resolve(RootOf(uri), SubSeq(uri.path, 1, k))
              IN  ~(IsFresh(anc) /\ nodes[anc].error = 0)

\* C3: a cache_download whose walk consumes every segment and reaches a
\* fresh node returns that node's stored error, calls no fetcher and leaves
\* every node as it was.
C3_FreshReturnsStored ==
    [][\A uri \in Uris :
          (ndl' = ndl + 1 /\ last'.uri = uri /\ ReachesFresh(uri)) =>
              /\ last'.ret = nodes[Resolve(RootOf(uri), uri.path)].error
              /\ ~last'.fetched
              /\ nodes' = nodes]_vars

\* A failed fetch whose error was returned again without a new fetch.
C3_Witness == Downloaded /\ ~last.fetched /\ last.ret # 0

\* C4: after every return of cache_prepare both roots are live nodes without
\* parent, named after their transport.
C4_RootsAfterPrepare ==
    last.op = "prepare" =>
        /\ RootsLive
        /\ nodes[rsync].parent = NULL /\ nodes[rsync].basename = "rsync"
        /\ nodes[https].parent = NULL /\ nodes[https].basename = "https"

\* C5: every non-root node of the trees is in its parent's table, and looking
\* its basename up in that table yields the node itself.
C5_ChildrenMap ==
    \A n \in NonRoots :
        /\ nodes[n].parent \in DOMAIN nodes
        /\ \E i \in 1..Len(nodes[nodes[n].parent].children) :
              nodes[nodes[n].parent].children[i] = n
        /\ HASH_FIND_STR(nodes, nodes[n].parent, nodes[n].basename) = n

C7_FileOnlyUnderHttps ==
    RootsLive => \A n \in Subtree(nodes, rsync) : ~HasFlag(nodes[n].flags, CNF_FILE)

\* C8: outside a sweep no node carries FOUND.
C8_FoundCleared ==
    \A n \in TreeNodes : ~HasFlag(nodes[n].flags, CNF_FOUND)

BeneathKept(n) ==
    \E k \in kept : IsProperPrefix(k.path, NodePath(nodes, n))

Present(k) ==
    \E n \in TreeNodes :
        /\ NodePath(nodes, n) = k.path
        /\ nodes[n].flags = k.flags
        /\ nodes[n].error = k.error
        /\ nodes[n].ts_success = k.ts_success
        /\ nodes[n].ts_attempt = k.ts_attempt

\* C10: a node fetched successfully in the current run whose path exists is
\* left as it was by cache_cleanup, and after a following cache_prepare in a
\* fresh process it is in the loaded tree with the same flags, error and
\* timestamps.
C10_FreshNodeSurvives ==
    /\ last.op = "cleanup" => \A k \in kept : Present(k) /\ k.path \in DOMAIN disk
    /\ (last.op = "prepare" /\ last.loaded) => \A k \in kept : Present(k)

\* C11: a tree written to metadata.json by the codec and loaded again is the
\* tree that was written: the same paths, each with the same flags, error
\* and timestamps, whatever the order of siblings.
C11_MetadataRoundTrip ==
    (last.op = "prepare" /\ last.loaded /\ dumped.written) =>
        TreeView(nodes) = dumped.tree

\* The [path, error] of every node object of a metadata document.
RECURSIVE JsonErrors(_, _)
JsonErrors(json, pb) ==
    LET path == Append(pb, json.basename.s)
        kids == IF json_is_array(json.children) THEN json.children.a ELSE <<>>
    IN  {[path |-> path, error |-> json.error.i]} \cup
        UNION {JsonErrors(kids[c], path) : c \in 1..Len(kids)}

MetaErrors(file) == UNION {JsonErrors(file.a[d], <<>>) : d \in 1..Len(file.a)}

\* The nodes whose last direct fetch, made in the current run, failed.
FailedNodes ==
    {n \in TreeNodes : IsFresh(n) /\ nodes[n].error # 0}

\* C12: a node whose last direct fetch in the current run failed survives
\* a cache_cleanup (here: one during which no system call fails) with its
\* error, and metadata.json holds that error for it.
C12_FailedNodeKeepsError ==
    [][(phase = "run" /\ phase' = "swept" /\ ~last'.fault) =>
          \A n \in FailedNodes :
              /\ \E v \in TreeView(nodes') :
                    v.path = NodePath(nodes, n) /\ v.error = nodes[n].error
              /\ [path |-> NodePath(nodes, n), error |-> nodes[n].error]
                    \in MetaErrors(meta')]_vars

\* The fields of a node object, its children apart, are all well formed.
WellFormedNode(json) ==
    /\ json.t = "object"
    /\ json.basename.t = "str"
    /\ json_is_integer(json.flags)
    /\ json.ts_success.t = "str" /\ json.ts_success.isTime
    /\ json.ts_attempt.t = "str" /\ json.ts_attempt.isTime
    /\ json_is_integer(json.error)
    /\ (json.children.t = "absent" \/ json_is_array(json.children))

\* The paths of the well-formed node objects none of whose ancestors is
\* malformed.
RECURSIVE LoadablePaths(_, _)
LoadablePaths(json, pb) ==
    IF ~WellFormedNode(json) THEN {}
    ELSE LET path == Append(pb, json.basename.s)
             kids == IF json_is_array(json.children) THEN json.children.a ELSE <<>>
         IN  {path} \cup UNION {LoadablePaths(kids[c], path) : c \in 1..Len(kids)}

\* What a defensive load of the document yields: both roots, and beneath
\* them what is loadable of the top-level objects named after a transport.
ExpectedPaths(file) ==
    {<<"rsync">>, <<"https">>} \cup
    UNION {LoadablePaths(file.a[d], <<>>) :
              d \in {e \in 1..Len(file.a) :
                        /\ file.kind = "array"
                        /\ WellFormedNode(file.a[e])
                        /\ \/ strcasecmp0(file.a[e].basename.s, "rsync")
                           \/ strcasecmp0(file.a[e].basename.s, "https")}}

\* C13: whatever metadata.json holds, a cache_prepare that loads it returns
\* with both roots present, and the loaded trees hold every well-formed node
\* object whose ancestors are well formed, and nothing else: a malformed
\* object costs itself and its subtree only.
C13_DefensiveLoad ==
    (last.op = "prepare" /\ last.loaded) =>
        /\ RootsLive
        /\ {v.path : v \in TreeView(nodes)} = ExpectedPaths(meta)

\* The node of a URI: where its path leads from the root of its transport.
Target(uri) == Resolve(RootOf(uri), uri.path)

C15_RsyncTargetChildless ==
    [][\A uri \in Uris :
          (ndl' = ndl + 1 /\ last'.uri = uri /\ last'.fetched
           /\ uri.type = UT_RSYNC) =>
              /\ Target(uri)' # NULL
              /\ nodes'[Target(uri)'].children = <<>>
              /\ Target(uri) # NULL =>
                    \A n \in Subtree(nodes, Target(uri)) \ {Target(uri)} :
                        n \notin DOMAIN nodes']_vars

\* A fetch_subtree for a node that had nodes beneath it.
C15_Witness ==
    /\ Downloaded /\ last.fetched /\ last.uri.type = UT_RSYNC
    /\ last.below > 0
    /\ nodes[Target(last.uri)].children = <<>>

\* The walk of cache_download(uri) descends through the node at the first k
\* segments: the node exists, a segment remains, and over rsync no fresh and
\* successful node ends the walk at or before it.
DescendsThrough(uri, k) ==
    /\ k < Len(uri.path)
    /\ Resolve(RootOf(uri), SubSeq(uri.path, 1, k)) # NULL
    /\ uri.type = UT_RSYNC =>
          \A j \in 1..k :
              LET anc == Resolve(RootOf(uri), SubSeq(uri.path, 1, j))
              IN  ~(IsFresh(anc) /\ nodes[anc].error = 0)

\* C16: when cache_download descends through a node that carries FILE, on
\* return no file is left at the node's path, the node is still in the tree
\* at that path with no flag set, a fetch was made for the descendant, and
\* when that fetch succeeded the descendant's node has exactly DIRECT,
\* SUCCESS and FILE.
C16_FileToDirectory ==
    [][\A uri \in Uris : \A k \in 0..(MaxDepth - 1) :
          LET n == Resolve(RootOf(uri), SubSeq(uri.path, 1, k))
          IN  (/\ ndl' = ndl + 1 /\ last'.uri = uri
               /\ DescendsThrough(uri, k)
               /\ HasFlag(nodes[n].flags, CNF_FILE)) =>
                  /\ NodePath(nodes, n) \in DOMAIN disk' =>
                        disk'[NodePath(nodes, n)] # "file"
                  /\ n \in DOMAIN nodes'
                  /\ Resolve(RootOf(uri), SubSeq(uri.path, 1, k))' = n
                  /\ nodes'[n].flags = 0
                  /\ last'.fetched
                  /\ Target(uri)' # NULL
                  /\ last'.result = 0 =>
                        nodes'[Target(uri)'].flags =
                            CNF_DIRECT + CNF_SUCCESS + CNF_FILE]_vars

\* C17: when an HTTP cache_download consumes every segment and reaches an
\* existing node that is not fresh and lacks FILE, a fetch is made and on
\* return nothing is on the disk beneath the node's path.
C17_DirectoryToFile ==
    [][\A uri \in Uris :
          (/\ ndl' = ndl + 1 /\ last'.uri = uri
           /\ uri.type = UT_HTTPS
           /\ Target(uri) # NULL
           /\ ~IsFresh(Target(uri))
           /\ ~HasFlag(nodes[Target(uri)].flags, CNF_FILE)) =>
              /\ last'.fetched
              /\ Beneath(disk', NodePath(nodes, Target(uri))) = {}]_vars

\* A failed fetch_object for a node that had a directory tree on the disk.
C17_Witness ==
    /\ Downloaded /\ last.fetched /\ last.uri.type = UT_HTTPS
    /\ last.result # 0
    /\ last.entries > 0
    /\ Beneath(disk, uri_get_local(last.uri)) = {}

\* C18: after a cache_cleanup during which no system call failed, every
\* entry of the disk below the rsync and https directories is the path of a
\* node of the trees or lies beneath a node that the sweep kept as fresh
\* and successful; an entry without a node elsewhere is gone, with all
\* that was beneath it.
C18_OrphansRemoved ==
    (phase = "swept" /\ ~last.fault) =>
        \A p \in DOMAIN disk :
            Len(p) >= 2 =>
                \/ \E n \in TreeNodes : NodePath(nodes, n) = p
                \/ \E k \in kept : IsProperPrefix(k.path, p)

\* A sweep without failures that removed entries and left others.
C18_Witness ==
    /\ last.op = "cleanup" /\ ~last.fault
    /\ last.removed > 0
    /\ \E p \in DOMAIN disk : Len(p) >= 2

\* A node the sweep has no reason to keep: not fresh, or its fetch failed.
Stale(n) == ~(IsFresh(n) /\ nodes[n].error = 0)

\* C19: after every cache_cleanup both roots are still nodes of the cache,
\* without parent; a root whose directory is missing has lost its
\* descendants only; and (when no system call failed during the sweep) no
\* stale non-root node without children is left whose path is a directory.
C19_RootsSurviveSweep ==
    phase = "swept" =>
        /\ RootsLive
        /\ is_root(nodes[rsync]) /\ is_root(nodes[https])
        /\ ~last.fault =>
              /\ \A r \in {rsync, https} :
                    NodePath(nodes, r) \notin DOMAIN disk => nodes[r].children = <<>>
              /\ \A n \in NonRoots :
                    ~(/\ Stale(n)
                      /\ nodes[n].children = <<>>
                      /\ OnDisk(n)
                      /\ disk[NodePath(nodes, n)] = "dir")

\* A sweep that removed the directory of the last node beneath the rsync
\* root and found no https directory: both roots are there, without children.
C19_Witness ==
    /\ last.op = "cleanup" /\ ~last.fault
    /\ last.removed > 0
    /\ RootsLive
    /\ nodes[rsync].children = <<>> /\ <<"rsync">> \in DOMAIN disk
    /\ nodes[https].children = <<>> /\ <<"https">> \notin DOMAIN disk

\* C20: a node is fresh (was_recently_downloaded) exactly when its last
\* direct fetch was attempted in the current run, that is since the latest
\* cache_prepare; a node last fetched for in an earlier run and loaded from
\* metadata.json, or before the latest cache_prepare, is not fresh.
C20_FreshIffThisRun ==
    phase \in {"run", "swept"} =>
        \A n \in TreeNodes :
            was_recently_downloaded(nodes[n]) <=> n \in attempted

-----------------------------------------------------------------------------
(* Properties of the overlay loader *)

\* The four required arrays, by the path of each.
RequiredArrays ==
    { <<"validationOutputFilters", "prefixFilters">>,
      <<"validationOutputFilters", "bgpsecFilters">>,
      <<"locallyAddedAssertions", "prefixAssertions">>,
      <<"locallyAddedAssertions", "bgpsecAssertions">> }

ArrayAt(root, path) == json_object_get(json_object_get(root, path[1]), path[2])

\* slurmVersion is 1 and the four arrays are there, as arrays.
WellShaped(root) ==
    /\ json_object_get(root, "slurmVersion") = JInt(ToWide(1))
    /\ \A path \in RequiredArrays : ArrayAt(root, path).t = "array"

\* slurm_load has run on a document that json_load_file could load.
Loaded == slurm.pc = "loaded" /\ slurm.config.loads

\* C21: whenever slurmVersion is absent or not 1, or one of the four required
\* arrays is missing or not an array, slurm_load returns a negative code and
\* has processed no record; a document with slurmVersion 1 and four empty
\* arrays is accepted.
C21_StrictDocument ==
    Loaded =>
        LET root == slurm.config.root IN
        /\ ~WellShaped(root) => (slurm.error < 0 /\ slurm.processed = <<>>)
        /\ (WellShaped(root) /\ \A path \in RequiredArrays :
                                   ArrayAt(root, path) = JArray(<<>>))
              => slurm.error = 0

ElementOf(root, entry) ==
    ArrayAt(root,
            << IF entry.is_assertion THEN "locallyAddedAssertions"
               ELSE "validationOutputFilters",
               IF entry.family = "prefix"
               THEN (IF entry.is_assertion THEN "prefixAssertions" ELSE "prefixFilters")
               ELSE (IF entry.is_assertion THEN "bgpsecAssertions" ELSE "bgpsecFilters") >>
           ).a[entry.index]

\* C23: a record (prefix or BGPsec, filter or assertion) whose asn member is
\* an integer outside 1 .. 2^32-1, 0 and negative values included, is
\* rejected; an accepted record carries the ASN flag only for an asn inside
\* that range; an assertion without asn is rejected.
C23_AsnRange ==
    Loaded =>
        \A i \in DOMAIN slurm.processed :
            LET entry == slurm.processed[i]
                asn == json_object_get(ElementOf(slurm.config.root, entry), "asn")
                inside == /\ asn.t = "int"
                          /\ WideLe(ToWide(1), asn.i) /\ WideLe(asn.i, UINT32_MAX)
            IN
            /\ (asn.t = "int" /\ ~inside) => entry.outcome.error # 0
            /\ (entry.outcome.error = 0
                  /\ SLURM_COM_FLAG_ASN \in entry.outcome.result.data_flag) => inside
            /\ (entry.is_assertion /\ asn = JAbsent) => entry.outcome.error # 0

\* C24 as stated: a prefix assertion in which maxPrefixLength is present is
\* accepted only if prefix_length <= maxPrefixLength <= family_max (32 for
\* v4, 128 for v6).
C24_MaxLengthAnyPresent ==
    Loaded =>
        \A i \in DOMAIN slurm.processed :
            LET entry == slurm.processed[i]
                element == ElementOf(slurm.config.root, entry)
                max == json_object_get(element, "maxPrefixLength")
                prefix == json_object_get(element, "prefix")
            IN
            (/\ entry.family = "prefix" /\ entry.is_assertion
             /\ max # JAbsent
             /\ entry.outcome.error = 0)
            => /\ max.t = "int"
               /\ WideLe(ToWide(prefix.len.v), max.i)
               /\ WideLe(max.i, ToWide(IF prefix.addr.colon THEN 128 ELSE 32))

\* C24: a prefix assertion in which maxPrefixLength is present and not 0 is
\* accepted only if prefix_length <= maxPrefixLength <= family_max (32 for
\* v4, 128 for v6); every other present value that is not 0, one smaller
\* than the prefix length included, has the record rejected.
C24_MaxLengthRange ==
    Loaded =>
        \A i \in DOMAIN slurm.processed :
            LET entry == slurm.processed[i]
                element == ElementOf(slurm.config.root, entry)
                max == json_object_get(element, "maxPrefixLength")
                prefix == json_object_get(element, "prefix")
            IN
            (/\ entry.family = "prefix" /\ entry.is_assertion
             /\ max # JAbsent /\ max # JInt(ToWide(0))
             /\ entry.outcome.error = 0)
            => /\ max.t = "int"
               /\ WideLe(ToWide(prefix.len.v), max.i)
               /\ WideLe(max.i, ToWide(IF prefix.addr.colon THEN 128 ELSE 32))

\* An assertion for 10.0.0.0/8 accepted with maxPrefixLength 24.
C24_Witness ==
    /\ Loaded
    /\ \E i \in DOMAIN slurm.processed :
          LET entry == slurm.processed[i]
              element == ElementOf(slurm.config.root, entry)
          IN
          /\ entry.family = "prefix" /\ entry.is_assertion
          /\ json_object_get(element, "maxPrefixLength") = JInt(ToWide(24))
          /\ entry.outcome.error = 0
          /\ entry.outcome.result.prefix_length = 8
          /\ entry.outcome.result.max_prefix_length = 24

\* C25 as stated: whenever an HTTP fetch completes, the node of the URI had
\* no child nodes before drop_children ran, and the call destroys no node.
C25_HttpDropNoOp ==
    [][\A uri \in Uris :
          (ndl' = ndl + 1 /\ last'.uri = uri /\ last'.fetched
           /\ uri.type = UT_HTTPS) =>
              /\ Target(uri) # NULL => nodes[Target(uri)].children = <<>>
              /\ DOMAIN nodes \subseteq DOMAIN nodes']_vars

\* C25: when an HTTP fetch completes on a node the call created, or on a node
\* that had no child nodes, drop_children destroys no node; when it completes
\* on a node that had child nodes, that node lacked FILE (the call removed
\* its directory from the disk) and drop_children destroys the nodes beneath
\* it, and no other.  In both cases the node has no children on return.
C25_HttpDropsFormerDirectory ==
    [][\A uri \in Uris :
          (ndl' = ndl + 1 /\ last'.uri = uri /\ last'.fetched
           /\ uri.type = UT_HTTPS) =>
              /\ Target(uri)' # NULL
              /\ nodes'[Target(uri)'].children = <<>>
              /\ (Target(uri) = NULL \/ nodes[Target(uri)].children = <<>>) =>
                    DOMAIN nodes \subseteq DOMAIN nodes'
              /\ (Target(uri) # NULL /\ nodes[Target(uri)].children # <<>>) =>
                    /\ ~HasFlag(nodes[Target(uri)].flags, CNF_FILE)
                    /\ DOMAIN nodes \ DOMAIN nodes' =
                          Subtree(nodes, Target(uri)) \ {Target(uri)}]_vars

\* An HTTP fetch for a node that had nodes beneath it: they are gone.
C25_Witness ==
    /\ Downloaded /\ last.fetched /\ last.uri.type = UT_HTTPS
    /\ last.below > 0
    /\ Target(last.uri) # NULL
    /\ nodes[Target(last.uri)].children = <<>>

\* C26: during cache_cleanup, whenever the sweep of a subtree begins (the
\* subtree of a directory entry's node, or of the second root), no node of a
\* subtree swept before it carries FOUND.
C26_FoundClearedBeforeNextSubtree ==
    last.op = "cleanup" => ~last.early

C28_FreshOkIsLeaf ==
    phase = "run" =>
        \A n \in NonRoots :
            (IsFresh(n) /\ nodes[n].error = 0) => nodes[n].children = <<>>

====
